---------------------------- MODULE Spec2Model ----------------------------
(***************************************************************************)
(* Model of the Scraper module (Breadcord-Toasts/Scraper):                 *)
(*   - gather_with_limit            (src/__init__.py)                      *)
(*   - Scraper.scrape_channel_messages (src/__init__.py)                   *)
(*   - fetch_channel_history        (src/helpers/modified_internals.py)    *)
(*   - fetch_members                (src/helpers/modified_internals.py)    *)
(*   - read_backwards, get_last_json_object (src/helpers/output_parse.py)  *)
(*                                                                         *)
(* A file is a sequence of one-character strings.  The archive files the   *)
(* module writes are ASCII (json.dumps escapes everything else), so one    *)
(* character is one byte and decoding a chunk keeps its characters.        *)
(* JSON values are tagged records:                                         *)
(*   [t |-> "str", s |-> chars]   [t |-> "num", n |-> Nat]                  *)
(*   [t |-> "arr", a |-> values]  [t |-> "obj", o |-> <<[k, v], ...>>]      *)
(***************************************************************************)
EXTENDS Integers, Sequences, FiniteSets, TLC

VARIABLES
    \* ---- gather_with_limit
    pending,            \* list of not yet started awaitables (task ids)
    running,            \* the tasks handed to / returned by asyncio.wait
    done,               \* the completion batch being processed
    results,            \* the list the call returns
    limit,              \* parameter
    return_exceptions,  \* parameter
    nTasks,             \* number of submitted awaitables
    willFail,           \* per task: does its coroutine raise
    taskState,          \* per task: "new", "running", "ok", "failed"
    gpc,                \* position of the scheduler loop
    started,            \* tasks in the order they were started
    \* ---- scrape_channel_messages on one path
    file,               \* [exists, data]: the file at message_save_path
    remote,             \* the channel's messages, ascending id
    pc,                 \* position of the run
    last_msg_id,        \* None or an integer
    first_element,
    message_limit,      \* fetch_channel_history's remaining budget
    after_message,      \* fetch_channel_history's cursor (an id)
    page,               \* records of the current page not yet yielded
    count,              \* records yielded from the current page
    run,                \* ghost: facts about the current / last run
    written,            \* ghost: records appended since the file was last overwritten
    history,            \* ghost: records the source yielded over a chain of clean runs
    \* ---- get_last_json_object as a function of a file
    lfile,              \* input file content
    chunk_size,         \* read_backwards' chunk size
    lresult,            \* what the call returned / raised
    lpc,                \* "build", then "called"
    lmeta,              \* ghost: how the input file was put together
    \* ---- fetch_members on one guild
    guild_members,      \* the user ids of the guild's members, ascending
    mlimit,             \* the parameter `limit`, as the loop rewrites it
    mafter,             \* the cursor `after` (an id)
    mdata,              \* members of the current page not yet yielded
    mpc,                \* position of the generator
    mrun,               \* ghost: budget given, members yielded, requests made
    \* ---- read_backwards on the file lfile with chunk size chunk_size
    steam_size,         \* the size seek(0, SEEK_END) returned
    fpos,               \* the stream position of file_obj
    rleft,              \* iterations of `for _ in range(...)` still to run
    rchunks,            \* ghost: the chunks yielded, each with the offset it was read at
    rseeks,             \* ghost: the absolute offsets the seeks asked for
    rpc                 \* position of the generator

gatherVars == <<pending, running, done, results, limit, return_exceptions,
                nTasks, willFail, taskState, gpc, started>>
scrapeVars == <<file, remote, pc, last_msg_id, first_element, message_limit,
                after_message, page, count, run, written, history>>
locatorVars == <<lfile, chunk_size, lresult, lpc, lmeta>>
memberVars == <<guild_members, mlimit, mafter, mdata, mpc, mrun>>
readerVars == <<steam_size, fpos, rleft, rchunks, rseeks, rpc>>
vars == <<gatherVars, scrapeVars, locatorVars, memberVars, readerVars>>

\* Python's None where an integer id or budget is expected (ids are >= 0)
None == -1

\* fetch_members before its first call
NoMemberRun == [budget |-> None, yielded |-> <<>>, requests |-> <<>>]

-----------------------------------------------------------------------------
(* Characters and small sequence helpers.                                  *)

QUOTE == "\""
BACKSLASH == "\\"
JSON_WHITESPACE == {" ", "\n", "\r", "\t"}
Digits == <<"0", "1", "2", "3", "4", "5", "6", "7", "8", "9">>

\* c[::-1]
Reverse(s) == [i \in 1..Len(s) |-> s[Len(s) + 1 - i]]

\* str.find: index (from 1) of the first occurrence of ch, 0 for Python's -1
Find(s, ch) ==
    IF \E i \in 1..Len(s) : s[i] = ch
    THEN CHOOSE i \in 1..Len(s) : s[i] = ch /\ \A j \in 1..(i - 1) : s[j] # ch
    ELSE 0

IsDigit(ch) == \E d \in 1..10 : Digits[d] = ch
DigitValue(ch) == (CHOOSE d \in 1..10 : Digits[d] = ch) - 1

RECURSIVE NatToDigits(_)
NatToDigits(n) ==
    IF n < 10 THEN <<Digits[n + 1]>>
    ELSE NatToDigits(n \div 10) \o <<Digits[(n % 10) + 1]>>

RECURSIVE DigitsToNat(_)
DigitsToNat(s) ==
    IF s = <<>> THEN 0
    ELSE 10 * DigitsToNat(SubSeq(s, 1, Len(s) - 1)) + DigitValue(s[Len(s)])

-----------------------------------------------------------------------------
(* JSON values, json.dumps(value, separators=(",", ":")) and json.loads.   *)

Str(s) == [t |-> "str", s |-> s]
Num(n) == [t |-> "num", n |-> n]
Arr(a) == [t |-> "arr", a |-> a]
Obj(o) == [t |-> "obj", o |-> o]
Member(k, v) == [k |-> k, v |-> v]

RECURSIVE EscapeChars(_)
EscapeChars(s) ==
    IF s = <<>> THEN <<>>
    ELSE (IF Head(s) \in {QUOTE, BACKSLASH} THEN <<BACKSLASH, Head(s)>> ELSE <<Head(s)>>)
         \o EscapeChars(Tail(s))

EncodeString(s) == <<QUOTE>> \o EscapeChars(s) \o <<QUOTE>>

RECURSIVE Dumps(_)
RECURSIVE DumpsItems(_, _)
RECURSIVE DumpsMembers(_, _)
DumpsItems(a, i) ==
    IF i > Len(a) THEN <<>>
    ELSE (IF i > 1 THEN <<",">> ELSE <<>>) \o Dumps(a[i]) \o DumpsItems(a, i + 1)

DumpsMembers(o, i) ==
    IF i > Len(o) THEN <<>>
    ELSE (IF i > 1 THEN <<",">> ELSE <<>>)
         \o EncodeString(o[i].k) \o <<":">> \o Dumps(o[i].v) \o DumpsMembers(o, i + 1)

Dumps(v) ==
    CASE v.t = "str" -> EncodeString(v.s)
      [] v.t = "num" -> NatToDigits(v.n)
      [] v.t = "arr" -> <<"[">> \o DumpsItems(v.a, 1) \o <<"]">>
      [] v.t = "obj" -> <<"{">> \o DumpsMembers(v.o, 1) \o <<"}">>

\* A parse result: ok, the value, and the position after it.
ParseFail == [ok |-> FALSE, v |-> Num(0), p |-> 0]
ParseOk(v, p) == [ok |-> TRUE, v |-> v, p |-> p]

RECURSIVE SkipWs(_, _)
SkipWs(s, p) ==
    IF p <= Len(s) /\ s[p] \in JSON_WHITESPACE THEN SkipWs(s, p + 1) ELSE p

\* the characters of a string literal from position p (after the opening quote)
RECURSIVE ParseStringBody(_, _, _)
ParseStringBody(s, p, acc) ==
    IF p > Len(s) THEN ParseFail
    ELSE IF s[p] = QUOTE THEN ParseOk(Str(acc), p + 1)
    ELSE IF s[p] = BACKSLASH
         THEN IF p + 1 <= Len(s) /\ s[p + 1] \in {QUOTE, BACKSLASH}
              THEN ParseStringBody(s, p + 2, Append(acc, s[p + 1]))
              ELSE ParseFail
    ELSE IF s[p] \in {"\n", "\r", "\t"} THEN ParseFail
    ELSE ParseStringBody(s, p + 1, Append(acc, s[p]))

RECURSIVE ParseDigits(_, _, _)
ParseDigits(s, p, acc) ==
    IF p <= Len(s) /\ IsDigit(s[p]) THEN ParseDigits(s, p + 1, Append(acc, s[p]))
    ELSE ParseOk(Num(DigitsToNat(acc)), p)

RECURSIVE ParseValue(_, _)
RECURSIVE ParseElements(_, _, _)
RECURSIVE ParseMembers(_, _, _)
\* after "[" or after a ",": a value, then "," or "]"
ParseElements(s, p, acc) ==
    LET r == ParseValue(s, p) IN
    IF ~r.ok THEN ParseFail
    ELSE LET q == SkipWs(s, r.p) IN
         IF q > Len(s) THEN ParseFail
         ELSE IF s[q] = "," THEN ParseElements(s, q + 1, Append(acc, r.v))
         ELSE IF s[q] = "]" THEN ParseOk(Arr(Append(acc, r.v)), q + 1)
         ELSE ParseFail

\* after "{" or after a ",": a string key, ":", a value, then "," or "}"
ParseMembers(s, p, acc) ==
    LET k == SkipWs(s, p) IN
    IF k > Len(s) \/ s[k] # QUOTE THEN ParseFail
    ELSE LET key == ParseStringBody(s, k + 1, <<>>) IN
         IF ~key.ok THEN ParseFail
         ELSE LET c == SkipWs(s, key.p) IN
              IF c > Len(s) \/ s[c] # ":" THEN ParseFail
              ELSE LET r == ParseValue(s, c + 1) IN
                   IF ~r.ok THEN ParseFail
                   ELSE LET q == SkipWs(s, r.p)
                            m == Append(acc, Member(key.v.s, r.v))
                        IN  IF q > Len(s) THEN ParseFail
                            ELSE IF s[q] = "," THEN ParseMembers(s, q + 1, m)
                            ELSE IF s[q] = "}" THEN ParseOk(Obj(m), q + 1)
                            ELSE ParseFail

ParseValue(s, p0) ==
    LET p == SkipWs(s, p0) IN
    IF p > Len(s) THEN ParseFail
    ELSE IF s[p] = QUOTE THEN ParseStringBody(s, p + 1, <<>>)
    ELSE IF s[p] = "0" THEN ParseOk(Num(0), p + 1)
    ELSE IF IsDigit(s[p]) THEN ParseDigits(s, p, <<>>)
    ELSE IF s[p] = "["
         THEN LET q == SkipWs(s, p + 1) IN
              IF q <= Len(s) /\ s[q] = "]" THEN ParseOk(Arr(<<>>), q + 1)
              ELSE ParseElements(s, p + 1, <<>>)
    ELSE IF s[p] = "{"
         THEN LET q == SkipWs(s, p + 1) IN
              IF q <= Len(s) /\ s[q] = "}" THEN ParseOk(Obj(<<>>), q + 1)
              ELSE ParseMembers(s, p + 1, <<>>)
    ELSE ParseFail

\* json.loads: one value, then only whitespace; otherwise it raises
Loads(s) ==
    LET r == ParseValue(s, 1) IN
    IF r.ok /\ SkipWs(s, r.p) > Len(s) THEN [ok |-> TRUE, v |-> r.v]
    ELSE [ok |-> FALSE, v |-> Num(0)]

-----------------------------------------------------------------------------
(* read_backwards and get_last_json_object (src/helpers/output_parse.py).  *)

\* file_obj.read(n) at offset pos: at most n bytes, fewer at the end of file
ReadAt(data, pos, n) ==
    SubSeq(data, pos + 1, IF pos + n > Len(data) THEN Len(data) ELSE pos + n)

\* The loop of read_backwards with n iterations left and the stream at pos
\* (where the previous iteration's "undo the read" seek left it).
RECURSIVE ReadBackwardsLoop(_, _, _, _)
ReadBackwardsLoop(data, c, pos, n) ==
    IF n = 0
    THEN <<ReadAt(data, 0, Len(data) % c)>>       \* seek(0); read(size % chunk)
    ELSE LET at == pos - c                         \* seek(-chunk_size, SEEK_CUR)
             chunk == ReadAt(data, at, c)          \* read(chunk_size)
             undo == (at + Len(chunk)) - c         \* seek(-chunk_size, SEEK_CUR)
         IN  <<chunk>> \o ReadBackwardsLoop(data, c, undo, n - 1)

\* the chunks in the order the generator yields them
ReadBackwards(data, c) == ReadBackwardsLoop(data, c, Len(data), Len(data) \div c)

\* read_iter = amap(read_iter, lambda c: c[::-1])
ReversedChunks(data, c) ==
    LET chunks == ReadBackwards(data, c) IN
    [i \in 1..Len(chunks) |-> Reverse(chunks[i])]

\* achain(...) of the chunks from index i on, as one character stream
RECURSIVE Chain(_, _)
Chain(chunks, i) ==
    IF i > Len(chunks) THEN <<>> ELSE chunks[i] \o Chain(chunks, i + 1)

\* The first loop (lines 73-81): look for "]" chunk by chunk.  A chunk without
\* "]" is skipped by `continue`, which leaves `chars` as it was.
RECURSIVE FindListEnd(_, _, _)
FindListEnd(chunks, i, chars) ==
    IF i > Len(chunks) THEN [status |-> "exhausted", chars |-> chars, next |-> i]
    ELSE LET chunk == chunks[i]
             found_end == Find(chunk, "]")
             seen == chars \o SubSeq(chunk, 1, found_end - 1)
         IN  IF found_end = 0 THEN FindListEnd(chunks, i + 1, chars)
             ELSE IF \E k \in 1..Len(seen) : seen[k] \notin JSON_WHITESPACE
                  THEN [status |-> "trailing", chars |-> chars, next |-> i]
             ELSE [status |-> "found",
                   chars |-> SubSeq(chunk, found_end, Len(chunk)),
                   next |-> i + 1]

\* The scanner state of the second loop (lines 86-91).
ScanInit == [extracted |-> <<>>, square_nests |-> 0, curly_nests |-> 0,
             in_string |-> FALSE, found_quote |-> FALSE, should_exit |-> FALSE]

\* A scanner that lets every quote met inside a string close it, without
\* looking at the character before the quote (no escape handling).
ScanCharNoEscape(st, char) ==
    LET s0 == [st EXCEPT !.extracted = Append(@, char)] IN
    IF char \in JSON_WHITESPACE THEN s0
    ELSE
    LET s1 == IF ~s0.in_string
              THEN IF char = QUOTE THEN [s0 EXCEPT !.in_string = TRUE] ELSE s0
              ELSE IF char = QUOTE THEN [s0 EXCEPT !.in_string = FALSE]
              ELSE s0
    IN
    IF s1.in_string \/ char = QUOTE THEN s1
    ELSE
    LET s2 == CASE char = "[" -> [s1 EXCEPT !.square_nests = @ + 1]
                [] char = "]" -> [s1 EXCEPT !.square_nests = @ - 1]
                [] char = "{" -> [s1 EXCEPT !.curly_nests = @ + 1]
                [] char = "}" -> [s1 EXCEPT !.curly_nests = @ - 1]
                [] OTHER -> s1
    IN  IF s2.curly_nests = 0 THEN [s2 EXCEPT !.should_exit = TRUE] ELSE s2

\* One pass of the body of `for char in chunk` (lines 96-128).
ScanChar(st, char) ==
    LET s0 == [st EXCEPT !.extracted = Append(@, char)] IN
    IF char \in JSON_WHITESPACE THEN s0
    ELSE
    LET s1 == IF ~s0.in_string
              THEN IF char = QUOTE THEN [s0 EXCEPT !.in_string = TRUE] ELSE s0
              ELSE IF char = QUOTE THEN [s0 EXCEPT !.found_quote = TRUE]
              ELSE IF s0.found_quote
                   THEN [s0 EXCEPT !.found_quote = FALSE,
                                   !.in_string = (char = BACKSLASH)]
              ELSE s0
    IN
    IF s1.in_string THEN s1
    ELSE
    LET s2 == CASE char = QUOTE -> [s1 EXCEPT !.in_string = TRUE]
                [] char = "[" -> [s1 EXCEPT !.square_nests = @ + 1]
                [] char = "]" -> [s1 EXCEPT !.square_nests = @ - 1]
                [] char = "{" -> [s1 EXCEPT !.curly_nests = @ + 1]
                [] char = "}" -> [s1 EXCEPT !.curly_nests = @ - 1]
                [] OTHER -> s1
    IN  IF s2.curly_nests = 0 THEN [s2 EXCEPT !.should_exit = TRUE] ELSE s2

\* The second loop over the character stream, until should_exit or the end.
RECURSIVE Scan(_, _, _)
Scan(stream, i, st) ==
    IF st.should_exit \/ i > Len(stream) THEN st
    ELSE Scan(stream, i + 1, ScanChar(st, stream[i]))

ResultOk(v) == [ok |-> TRUE, error |-> "", v |-> v]
ResultError(e) == [ok |-> FALSE, error |-> e, v |-> Num(0)]
DecodedResult(d) == IF d.ok THEN ResultOk(d.v) ELSE ResultError("JSONDecodeError")

\* line 130: json.loads(extracted[::-1])
DecodeExtracted(st) == DecodedResult(Loads(Reverse(st.extracted)))

\* lines 82-130, given how the first loop ended
ExtractLast(chunks, f) ==
    IF f.status = "trailing" THEN ResultError("Trailing characters found after list.")
    ELSE IF f.status = "exhausted"   \* chars is still empty
    THEN ResultError("No list was found in the file.")
    ELSE DecodeExtracted(Scan(Tail(f.chars) \o Chain(chunks, f.next), 1, ScanInit))

LastOfChunks(chunks) == ExtractLast(chunks, FindListEnd(chunks, 1, <<>>))

\* get_last_json_object on a file with content `data`, read in chunks of c
GetLastJsonObject(data, c) == LastOfChunks(ReversedChunks(data, c))

-----------------------------------------------------------------------------
(* fetch_channel_history (src/helpers/modified_internals.py lines 13-46)   *)
(* and Scraper.scrape_channel_messages (src/__init__.py lines 124-208),    *)
(* run again and again on one message_save_path.                           *)

MaxMessages == 3        \* messages the channel comes to hold
MaxBudget == 2          \* largest message_limit a run is given
ChunkSize == 5          \* read_backwards' chunk_size, scaled down from 1024
PageCeiling == 2        \* messages per logs_from request, scaled down from 100
OLDEST_OBJECT == 0      \* discord.object.OLDEST_OBJECT.id

NoFile == [exists |-> FALSE, data |-> <<>>]
NoMeta == [records |-> <<>>, closed |-> FALSE, pads |-> 0, garbage |-> 0]
FileOf(data) == [exists |-> TRUE, data |-> data]

\* The raw message dicts the remote holds.  Ids are strings of digits, as the
\* Discord API sends them; shape 2 carries a list of objects that have ids of
\* their own before its own id, shape 3 a text with "]" and a quote in it.
Shapes == {1, 2, 3}
IdMember(id) == Member(<<"i", "d">>, Str(NatToDigits(id)))
MessageOf(id, shape) ==
    CASE shape = 2 -> Obj(<<Member(<<"m">>, Arr(<<Obj(<<Member(<<"i", "d">>, Str(<<"7">>))>>)>>)),
                           IdMember(id)>>)
      [] shape = 3 -> Obj(<<IdMember(id), Member(<<"c">>, Str(<<"]", QUOTE>>))>>)
      [] OTHER -> Obj(<<IdMember(id)>>)

\* dict.get(key): the value of the last member named key, else None
RECURSIVE GetFrom(_, _, _)
GetFrom(o, key, i) ==
    IF i = 0 THEN [found |-> FALSE, v |-> Num(0)]
    ELSE IF o[i].k = key THEN [found |-> TRUE, v |-> o[i].v]
    ELSE GetFrom(o, key, i - 1)
Get(obj, key) == GetFrom(obj.o, key, Len(obj.o))

\* Python truthiness of a decoded JSON value
Truthy(v) ==
    CASE v.t = "str" -> v.s # <<>>
      [] v.t = "num" -> v.n # 0
      [] v.t = "arr" -> v.a # <<>>
      [] v.t = "obj" -> v.o # <<>>

\* int(v): a number, or a string of digits; anything else raises
IntOf(v) ==
    IF v.t = "num" THEN [ok |-> TRUE, n |-> v.n]
    ELSE IF v.t = "str" /\ v.s # <<>> /\ \A i \in 1..Len(v.s) : IsDigit(v.s[i])
         THEN [ok |-> TRUE, n |-> DigitsToNat(v.s)]
    ELSE [ok |-> FALSE, n |-> 0]

\* int(message["id"])
MessageId(m) == IntOf(Get(m, <<"i", "d">>).v).n

\* http.logs_from(channel, limit, after=after_id): the `limit` oldest messages
\* with an id above after_id, newest first
RECURSIVE OldestAfter(_, _, _)
OldestAfter(msgs, n, after_id) ==
    IF msgs = <<>> \/ n = 0 THEN <<>>
    ELSE IF MessageId(Head(msgs)) > after_id
         THEN <<Head(msgs)>> \o OldestAfter(Tail(msgs), n - 1, after_id)
    ELSE OldestAfter(Tail(msgs), n, after_id)
LogsFrom(msgs, n, after_id) == Reverse(OldestAfter(msgs, n, after_id))

\* line 28 of modified_internals.py
Min(a, b) == IF a < b THEN a ELSE b
\* a variant that always asks for a full page
RetrieveCountUnclamped == PageCeiling
RetrieveCount == IF message_limit = None THEN PageCeiling ELSE Min(message_limit, PageCeiling)

\* lines 144-157 of __init__.py: what the run learns from an existing file.
\*   raised: an exception leaves scrape_channel_messages (the .get / int(...)
\*           of the else branch are outside the try)
\*   id:     last_msg_id, None when the file is absent or could not be used
IdOfValue(got) ==
    IF ~got.found THEN [raised |-> FALSE, id |-> None]
    ELSE IF ~Truthy(got.v) THEN [raised |-> FALSE, id |-> None]
    ELSE IF ~IntOf(got.v).ok THEN [raised |-> TRUE, id |-> None]
    ELSE [raised |-> FALSE, id |-> IntOf(got.v).n]
\* a variant whose except branch leaves the id 0 instead of None
IdOfLastZeroOnError(last_msg_obj) ==
    IF ~last_msg_obj.ok THEN [raised |-> FALSE, id |-> 0]
    ELSE IF last_msg_obj.v.t # "obj" THEN [raised |-> TRUE, id |-> None]
    ELSE IdOfValue(Get(last_msg_obj.v, <<"i", "d">>))
IdOfLast(last_msg_obj) ==
    IF ~last_msg_obj.ok THEN [raised |-> FALSE, id |-> None]      \* logged
    ELSE IF last_msg_obj.v.t # "obj" THEN [raised |-> TRUE, id |-> None]
    ELSE IdOfValue(Get(last_msg_obj.v, <<"i", "d">>))
ReadLastId(f) ==
    IF ~f.exists THEN [raised |-> FALSE, id |-> None]
    ELSE IdOfLast(GetLastJsonObject(f.data, ChunkSize))

\* lines 164-167: seek to the end, step one back, truncate
TruncateNothing(data) == data
TruncateLast(data) == SubSeq(data, 1, Len(data) - 1)

\* line 196: "" if first_element and not last_msg_id else ","
SeparatorAlways(first, last_id) == <<",">>
Separator(first, last_id) ==
    IF first /\ (last_id = None \/ last_id = 0) THEN <<>> ELSE <<",">>

NoRun == [mode |-> "none", outcome |-> "none", startFile |-> NoFile,
          startWritten |-> <<>>, cursor |-> None, yielded |-> <<>>, deleted |-> FALSE,
          budget |-> None, requests |-> <<>>]

\* the state before the first run: no file, an empty channel
ScrapeInit ==
    /\ pending = <<>>
    /\ running = <<>>
    /\ done = {}
    /\ results = <<>>
    /\ limit = 1
    /\ return_exceptions = FALSE
    /\ nTasks = 0
    /\ willFail = <<>>
    /\ taskState = <<>>
    /\ gpc = "off"
    /\ started = <<>>
    /\ lfile = <<>>
    /\ chunk_size = ChunkSize
    /\ lresult = ResultError("not called")
    /\ lpc = "off"
    /\ lmeta = NoMeta
    /\ guild_members = <<>>
    /\ mlimit = None
    /\ mafter = 0
    /\ mdata = <<>>
    /\ mpc = "off"
    /\ mrun = NoMemberRun
    /\ steam_size = 0
    /\ fpos = 0
    /\ rleft = 0
    /\ rchunks = <<>>
    /\ rseeks = <<>>
    /\ rpc = "off"
    /\ file = NoFile
    /\ remote = <<>>
    /\ pc = "idle"
    /\ last_msg_id = None
    /\ first_element = TRUE
    /\ message_limit = None
    /\ after_message = OLDEST_OBJECT
    /\ page = <<>>
    /\ count = 0
    /\ run = NoRun
    /\ written = <<>>
    /\ history = [records |-> <<>>, clean |-> FALSE]

\* the channel receives a message (between runs)
PostMessage ==
    /\ pc = "idle"
    /\ Len(remote) < MaxMessages
    /\ \E shape \in Shapes : remote' = Append(remote, MessageOf(Len(remote) + 1, shape))
    /\ UNCHANGED <<file, pc, last_msg_id, first_element, message_limit, after_message,
                   page, count, run, written, history>>
    /\ UNCHANGED <<gatherVars, locatorVars, memberVars, readerVars>>

\* lines 158-179 and the start of fetch_channel_history (lines 23-26), with the
\* id that lines 144-157 found: truncate the "]" (resume) or overwrite and
\* write "[" (fresh).  When lines 155 raise, the call ends there and nothing
\* is touched: there is no step.
StartCursorOldest(id) == OLDEST_OBJECT
\* a variant that resumes at the last exported message itself
StartCursorInclusive(id) == IF id # None THEN id - 1 ELSE OLDEST_OBJECT
\* __init__.py line 183 and modified_internals.py lines 23-26
StartCursor(id) == IF id # None THEN id ELSE OLDEST_OBJECT

OpenWith(budget, found) ==
    /\ ~found.raised
    /\ last_msg_id' = found.id
    /\ file' = IF found.id = None THEN FileOf(<<"[">>)            \* mode "w", write("[")
               ELSE FileOf(TruncateLast(file.data))            \* truncate, mode "a"
    /\ written' = IF found.id = None THEN <<>> ELSE written
    /\ after_message' = StartCursor(found.id)
    /\ run' = [mode |-> IF found.id = None THEN "w" ELSE "a", outcome |-> "running",
               startFile |-> file, startWritten |-> written, cursor |-> found.id,
               yielded |-> <<>>, deleted |-> FALSE, budget |-> budget,
               requests |-> <<>>]
    /\ history' = IF ~file.exists THEN [records |-> <<>>, clean |-> TRUE] ELSE history
    /\ first_element' = TRUE
    /\ message_limit' = budget
    /\ page' = <<>>
    /\ count' = 0
    /\ pc' = "fetch"
    /\ UNCHANGED remote
    /\ UNCHANGED <<gatherVars, locatorVars, memberVars, readerVars>>

Begin(budget) ==
    /\ pc = "idle"
    /\ \E found \in {ReadLastId(file)} : OpenWith(budget, found)

\* modified_internals.py lines 28-30: the budget is used up, the generator returns
FetchExhausted ==
    /\ pc = "fetch"
    /\ RetrieveCount < 1
    /\ pc' = "close"
    /\ UNCHANGED <<file, remote, last_msg_id, first_element, message_limit,
                   after_message, page, count, run, written, history>>
    /\ UNCHANGED <<gatherVars, locatorVars, memberVars, readerVars>>

\* a variant that takes the id of the oldest message of the page
NextCursorOldest(data) == MessageId(data[Len(data)])
\* modified_internals.py line 38: int(data[0]['id']), the newest of the page
NextCursor(data) == MessageId(data[1])

\* modified_internals.py lines 35-41, with the page the request returned
TakePage(data) ==
    /\ message_limit' = IF data # <<>> /\ message_limit # None
                        THEN message_limit - Len(data) ELSE message_limit
    /\ after_message' = IF data # <<>> THEN NextCursor(data) ELSE after_message
    /\ page' = Reverse(data)
    /\ count' = 0
    /\ pc' = "yield"
    /\ run' = [run EXCEPT !.requests = Append(@, [after |-> after_message,
                                                  limit |-> RetrieveCount,
                                                  left |-> message_limit,
                                                  got |-> Len(data)])]
    /\ UNCHANGED <<file, remote, last_msg_id, first_element, written, history>>
    /\ UNCHANGED <<gatherVars, locatorVars, memberVars, readerVars>>

\* modified_internals.py lines 28-41: one page request that succeeds
FetchPage ==
    /\ pc = "fetch"
    /\ RetrieveCount >= 1
    /\ \E data \in {LogsFrom(remote, RetrieveCount, after_message)} : TakePage(data)

\* __init__.py lines 204-206: the page request raises discord.HTTPException
FetchHttpError ==
    /\ pc = "fetch"
    /\ RetrieveCount >= 1
    /\ file' = NoFile                              \* unlink(missing_ok=True)
    /\ written' = <<>>
    /\ run' = [run EXCEPT !.outcome = "http_error", !.deleted = TRUE]
    /\ history' = [history EXCEPT !.clean = FALSE]
    /\ pc' = "idle"
    /\ UNCHANGED <<remote, last_msg_id, first_element, message_limit, after_message,
                   page, count>>
    /\ UNCHANGED <<gatherVars, locatorVars, memberVars, readerVars>>

\* modified_internals.py lines 42-43 and __init__.py lines 195-202: the next
\* message of the page is yielded and written
WriteMessage ==
    /\ pc = "yield"
    /\ page # <<>>
    /\ file' = FileOf(file.data \o Separator(first_element, last_msg_id) \o Dumps(Head(page)))
    /\ first_element' = FALSE
    /\ count' = count + 1
    /\ page' = Tail(page)
    /\ written' = Append(written, Head(page))
    /\ run' = [run EXCEPT !.yielded = Append(@, Head(page))]
    /\ history' = IF history.clean
                  THEN [history EXCEPT !.records = Append(@, Head(page))]
                  ELSE history
    /\ UNCHANGED <<remote, pc, last_msg_id, message_limit, after_message>>
    /\ UNCHANGED <<gatherVars, locatorVars, memberVars, readerVars>>

\* a variant in which only an empty page ends the generator
ShortPageOnlyEmpty == count < 1
\* modified_internals.py line 45: count < 100
ShortPage == count < PageCeiling

\* modified_internals.py lines 45-46: a short page ends the generator
PageEnd ==
    /\ pc = "yield"
    /\ page = <<>>
    /\ pc' = IF ShortPage THEN "close" ELSE "fetch"
    /\ UNCHANGED <<file, remote, last_msg_id, first_element, message_limit,
                   after_message, page, count, run, written, history>>
    /\ UNCHANGED <<gatherVars, locatorVars, memberVars, readerVars>>

\* __init__.py lines 203, 207-208: write("]"), the session closes normally
CloseArray ==
    /\ pc = "close"
    /\ file' = FileOf(file.data \o <<"]">>)
    /\ run' = [run EXCEPT !.outcome = "ok"]
    /\ pc' = "idle"
    /\ UNCHANGED <<remote, last_msg_id, first_element, message_limit, after_message,
                   page, count, written, history>>
    /\ UNCHANGED <<gatherVars, locatorVars, memberVars, readerVars>>

\* a variant whose exit from the `async with` block completes the array
ClosedOnExceptionWithBracket(data) == data \o <<"]">>
\* __init__.py lines 170-174: when an exception passes through, the exit of
\* the `async with` block closes the file with what was written so far
ClosedOnException(data) == data

\* the run is cancelled, or an exception that is no discord.HTTPException is
\* raised, while it waits for a page or for a write: the file is closed as it is
Interrupt ==
    /\ pc \in {"fetch", "yield"}
    /\ file' = [file EXCEPT !.data = ClosedOnException(@)]
    /\ run' = [run EXCEPT !.outcome = "interrupted"]
    /\ history' = [history EXCEPT !.clean = FALSE]
    /\ pc' = "idle"
    /\ UNCHANGED <<remote, last_msg_id, first_element, message_limit,
                   after_message, page, count, written>>
    /\ UNCHANGED <<gatherVars, locatorVars, memberVars, readerVars>>

Budgets == {None} \cup (1..MaxBudget)

ScrapeNext ==
    \/ PostMessage
    \/ \E budget \in Budgets : Begin(budget)
    \/ FetchExhausted
    \/ FetchPage
    \/ FetchHttpError
    \/ WriteMessage
    \/ PageEnd
    \/ CloseArray
    \/ Interrupt

-----------------------------------------------------------------------------
(* gather_with_limit (src/__init__.py lines 39-61).                        *)
(* The submitted awaitables are coroutines 1..nTasks, as at the call site  *)
(* in Scraper.scrape.  A coroutine starts when ensure_future wraps it and  *)
(* runs only while the scheduler loop is suspended in asyncio.wait (or has *)
(* left the function).                                                     *)

MaxTasks == 3
MaxLimit == 3

Tasks == 1..nTasks
\* "http_error": the coroutine returned after its pipeline caught a remote error
Terminal == {"ok", "failed", "http_error"}
RunningTasks == {t \in Tasks : taskState[t] = "running"}
InSeq(q, x) == \E i \in 1..Len(q) : q[i] = x

\* line 48: while pending or running
LoopContinuesPendingOnly == pending # <<>>
LoopContinues == pending # <<>> \/ running # <<>>

\* line 49: while len(running) < limit and pending
CanStartOffByOne == Len(running) <= limit /\ pending # <<>>
CanStartLeavesOneFree == Len(running) + 1 < limit /\ pending # <<>>
CanStart == Len(running) < limit /\ pending # <<>>

GatherInit ==
    /\ nTasks \in 1..MaxTasks
    /\ limit \in 1..MaxLimit
    /\ return_exceptions \in BOOLEAN
    /\ willFail \in [1..nTasks -> BOOLEAN]
    /\ pending = [i \in 1..nTasks |-> i]      \* line 45
    /\ running = <<>>                          \* line 46
    /\ results = <<>>                          \* line 47
    /\ done = {}
    /\ taskState = [t \in 1..nTasks |-> "new"]
    /\ started = <<>>
    /\ gpc = "loop"
    /\ lfile = <<>>
    /\ chunk_size = ChunkSize
    /\ lresult = ResultError("not called")
    /\ lpc = "off"
    /\ lmeta = NoMeta
    /\ guild_members = <<>>
    /\ mlimit = None
    /\ mafter = 0
    /\ mdata = <<>>
    /\ mpc = "off"
    /\ mrun = NoMemberRun
    /\ steam_size = 0
    /\ fpos = 0
    /\ rleft = 0
    /\ rchunks = <<>>
    /\ rseeks = <<>>
    /\ rpc = "off"
    /\ file = NoFile
    /\ remote = <<>>
    /\ pc = "idle"
    /\ last_msg_id = None
    /\ first_element = TRUE
    /\ message_limit = None
    /\ after_message = OLDEST_OBJECT
    /\ page = <<>>
    /\ count = 0
    /\ run = NoRun
    /\ written = <<>>
    /\ history = [records |-> <<>>, clean |-> FALSE]

\* line 48
LoopTest ==
    /\ gpc = "loop"
    /\ gpc' = IF LoopContinues THEN "fill" ELSE "returned"   \* line 61 when false
    /\ UNCHANGED <<pending, running, done, results, limit, return_exceptions,
                   nTasks, willFail, taskState, started>>
    /\ UNCHANGED <<scrapeVars, locatorVars, memberVars, readerVars>>

\* lines 49-50: running.append(asyncio.ensure_future(pending.pop(0)))
StartTask ==
    /\ gpc = "fill"
    /\ CanStart
    /\ running' = Append(running, Head(pending))
    /\ pending' = Tail(pending)
    /\ taskState' = [taskState EXCEPT ![Head(pending)] = "running"]
    /\ started' = Append(started, Head(pending))
    /\ UNCHANGED <<done, results, limit, return_exceptions, nTasks, willFail, gpc>>
    /\ UNCHANGED <<scrapeVars, locatorVars, memberVars, readerVars>>

\* line 51: the inner loop is over, the scheduler suspends in asyncio.wait
AwaitWait ==
    /\ gpc = "fill"
    /\ ~CanStart
    /\ gpc' = "wait"
    /\ UNCHANGED <<pending, running, done, results, limit, return_exceptions,
                   nTasks, willFail, taskState, started>>
    /\ UNCHANGED <<scrapeVars, locatorVars, memberVars, readerVars>>

\* The started tasks run while gather_with_limit is suspended in asyncio.wait,
\* and go on running on the event loop after it has raised or was cancelled:
\* nothing in lines 48-61 cancels them.
TasksRunOnlyWhileAwaited == gpc = "wait"
TasksMayRun == gpc \in {"wait", "raised", "cancelled"}

\* a started coroutine runs to its end: it returns or raises
TaskFinish(t) ==
    /\ TasksMayRun
    /\ taskState[t] = "running"
    /\ taskState' = [taskState EXCEPT ![t] = IF willFail[t] THEN "failed" ELSE "ok"]
    /\ UNCHANGED <<pending, running, done, results, limit, return_exceptions,
                   nTasks, willFail, gpc, started>>
    /\ UNCHANGED <<scrapeVars, locatorVars, memberVars, readerVars>>

\* Whether scrape_channel_messages lets the end of its write session out as an
\* exception: a discord.HTTPException of the page fetch is caught in lines
\* 204-206, anything else leaves the coroutine.
RaisesOnHttp(outcome) == outcome \in {"interrupted", "http_error"}
Raises(outcome) == outcome = "interrupted"

\* the page fetch of a started channel pipeline fails with a remote error
TaskHttpError(t) ==
    /\ TasksMayRun
    /\ taskState[t] = "running"
    /\ ~willFail[t]
    /\ taskState' = [taskState EXCEPT ![t] = IF Raises("http_error") THEN "failed"
                                             ELSE "http_error"]
    /\ UNCHANGED <<pending, running, done, results, limit, return_exceptions,
                   nTasks, willFail, gpc, started>>
    /\ UNCHANGED <<scrapeVars, locatorVars, memberVars, readerVars>>

\* line 51: asyncio.wait(..., FIRST_COMPLETED) resumes with (done, not done)
WaitReturns ==
    /\ gpc = "wait"
    /\ \E i \in 1..Len(running) : taskState[running[i]] \in Terminal
    /\ done' = {t \in Tasks : InSeq(running, t) /\ taskState[t] \in Terminal}
    /\ running' = SelectSeq(running, LAMBDA t : taskState[t] \notin Terminal)
    /\ gpc' = "process"
    /\ UNCHANGED <<pending, results, limit, return_exceptions, nTasks, willFail,
                   taskState, started>>
    /\ UNCHANGED <<scrapeVars, locatorVars, memberVars, readerVars>>

\* The caller is cancelled while gather_with_limit is suspended in line 51.
\* asyncio.wait lets the CancelledError through and leaves the tasks it was
\* given as they are; lines 48-61 hold no handler that would cancel them.
CancelCaller ==
    /\ gpc = "wait"
    /\ gpc' = "cancelled"
    /\ UNCHANGED <<pending, running, done, results, limit, return_exceptions,
                   nTasks, willFail, taskState, started>>
    /\ UNCHANGED <<scrapeVars, locatorVars, memberVars, readerVars>>

\* lines 52-59: one iteration of `for task in done` (a set: any order)
ProcessTask(t) ==
    /\ gpc = "process"
    /\ t \in done
    /\ done' = done \ {t}
    /\ IF taskState[t] = "failed"
       THEN IF return_exceptions
            THEN /\ results' = Append(results, [task |-> t, outcome |-> "error"])
                 /\ gpc' = gpc
            ELSE /\ gpc' = "raised"        \* raise error
                 /\ results' = results
       ELSE /\ results' = results          \* task.result() is not kept
            /\ gpc' = gpc
    /\ UNCHANGED <<pending, running, limit, return_exceptions, nTasks, willFail,
                   taskState, started>>
    /\ UNCHANGED <<scrapeVars, locatorVars, memberVars, readerVars>>

\* line 60: running = [task for task in running if not task.done()]
DropDone ==
    /\ gpc = "process"
    /\ done = {}
    /\ running' = SelectSeq(running, LAMBDA t : taskState[t] \notin Terminal)
    /\ gpc' = "loop"
    /\ UNCHANGED <<pending, done, results, limit, return_exceptions, nTasks,
                   willFail, taskState, started>>
    /\ UNCHANGED <<scrapeVars, locatorVars, memberVars, readerVars>>

-----------------------------------------------------------------------------
(* get_last_json_object applied to files of every shape: a JSON array of   *)
(* object records, with whitespace between its tokens, then (perhaps)      *)
(* characters after the closing bracket.                                   *)

MaxChunk == 3           \* chunk sizes 1..MaxChunk
MaxRecords == 2         \* records in the array
MaxPads == 1            \* whitespace characters between tokens / after "]"
MaxGarbage == 1         \* other characters after "]"

\* The records: nested arrays and objects, brackets and braces inside strings,
\* escaped quotes, an escaped backslash right before the closing quote.
\*   1  {"id":"1"}
\*   2  {"a":[{"b":"}"}],"c":{}}
\*   3  {"s":"\"]","t":"x\\"}
\*   4  {"\"":" {","n":[1,[]]}
SampleRecords == <<
    Obj(<<IdMember(1)>>),
    Obj(<<Member(<<"a">>, Arr(<<Obj(<<Member(<<"b">>, Str(<<"}">>))>>)>>)),
          Member(<<"c">>, Obj(<<>>))>>),
    Obj(<<Member(<<"s">>, Str(<<QUOTE, "]">>)),
          Member(<<"t">>, Str(<<"x", BACKSLASH>>))>>),
    Obj(<<Member(<<QUOTE>>, Str(<<" ", "{">>)),
          Member(<<"n">>, Arr(<<Num(1), Arr(<<>>)>>))>> ) >>
Pads == {" ", "\n"}
Garbage == {"x", "}"}

LocatorInit ==
    /\ pending = <<>>
    /\ running = <<>>
    /\ done = {}
    /\ results = <<>>
    /\ limit = 1
    /\ return_exceptions = FALSE
    /\ nTasks = 0
    /\ willFail = <<>>
    /\ taskState = <<>>
    /\ gpc = "off"
    /\ started = <<>>
    /\ file = NoFile
    /\ remote = <<>>
    /\ pc = "off"
    /\ last_msg_id = None
    /\ first_element = TRUE
    /\ message_limit = None
    /\ after_message = OLDEST_OBJECT
    /\ page = <<>>
    /\ count = 0
    /\ run = NoRun
    /\ written = <<>>
    /\ history = [records |-> <<>>, clean |-> FALSE]
    /\ lfile = <<>>
    /\ chunk_size \in 1..MaxChunk
    /\ lresult = ResultError("not called")
    /\ lpc = "build"
    /\ lmeta = NoMeta
    /\ guild_members = <<>>
    /\ mlimit = None
    /\ mafter = 0
    /\ mdata = <<>>
    /\ mpc = "off"
    /\ mrun = NoMemberRun
    /\ steam_size = 0
    /\ fpos = 0
    /\ rleft = 0
    /\ rchunks = <<>>
    /\ rseeks = <<>>
    /\ rpc = "off"

\* the writer of the file puts "[" or "," and the next record
PutRecord(i) ==
    /\ lpc = "build"
    /\ ~lmeta.closed
    /\ Len(lmeta.records) < MaxRecords
    /\ lfile' = lfile \o (IF lmeta.records = <<>> THEN <<"[">> ELSE <<",">>)
                      \o Dumps(SampleRecords[i])
    /\ lmeta' = [lmeta EXCEPT !.records = Append(@, SampleRecords[i])]
    /\ UNCHANGED <<chunk_size, lresult, lpc>>
    /\ UNCHANGED <<gatherVars, scrapeVars, memberVars, readerVars>>

\* ... the closing bracket
PutEnd ==
    /\ lpc = "build"
    /\ ~lmeta.closed
    /\ lmeta.records # <<>>
    /\ lfile' = Append(lfile, "]")
    /\ lmeta' = [lmeta EXCEPT !.closed = TRUE]
    /\ UNCHANGED <<chunk_size, lresult, lpc>>
    /\ UNCHANGED <<gatherVars, scrapeVars, memberVars, readerVars>>

\* ... whitespace after a record or after the closing bracket
PutPad(ch) ==
    /\ lpc = "build"
    /\ lmeta.records # <<>>
    /\ lmeta.pads < MaxPads
    /\ lfile' = Append(lfile, ch)
    /\ lmeta' = [lmeta EXCEPT !.pads = @ + 1]
    /\ UNCHANGED <<chunk_size, lresult, lpc>>
    /\ UNCHANGED <<gatherVars, scrapeVars, memberVars, readerVars>>

\* ... a character that is neither whitespace nor "]" after the closing bracket
PutGarbage(ch) ==
    /\ lpc = "build"
    /\ lmeta.closed
    /\ lmeta.garbage < MaxGarbage
    /\ lfile' = Append(lfile, ch)
    /\ lmeta' = [lmeta EXCEPT !.garbage = @ + 1]
    /\ UNCHANGED <<chunk_size, lresult, lpc>>
    /\ UNCHANGED <<gatherVars, scrapeVars, memberVars, readerVars>>

\* await get_last_json_object(file)
CallGetLast ==
    /\ lpc = "build"
    /\ lmeta.closed
    /\ lresult' = GetLastJsonObject(lfile, chunk_size)
    /\ lpc' = "called"
    /\ UNCHANGED <<lfile, chunk_size, lmeta>>
    /\ UNCHANGED <<gatherVars, scrapeVars, memberVars, readerVars>>

LocatorNext ==
    \/ \E i \in 1..Len(SampleRecords) : PutRecord(i)
    \/ PutEnd
    \/ \E ch \in Pads : PutPad(ch)
    \/ \E ch \in Garbage : PutGarbage(ch)
    \/ CallGetLast

-----------------------------------------------------------------------------
(* fetch_members (src/helpers/modified_internals.py lines 49-86) on a      *)
(* guild whose members intent is enabled.                                  *)

MaxMembers == 5         \* members of the guild
MaxMemberBudget == 5    \* largest `limit` given by the caller
MemberCeiling == 2      \* members per get_members request, scaled down from 1000
MemberBudgets == {None} \cup (0..MaxMemberBudget)

\* http.get_members(guild, limit, after): the `n` members with the lowest ids
\* above `after`, ascending
NewerMembers(ids, after) == SelectSeq(ids, LAMBDA m : m > after)
FirstOf(q, n) == SubSeq(q, 1, Min(n, Len(q)))
GetMembers(ids, n, after) == FirstOf(NewerMembers(ids, after), n)

\* line 63: retrieve = 1000 if limit is None else min(limit, 1000)
MemberRetrieve == IF mlimit = None THEN MemberCeiling ELSE Min(mlimit, MemberCeiling)

MembersInit ==
    /\ pending = <<>>
    /\ running = <<>>
    /\ done = {}
    /\ results = <<>>
    /\ limit = 1
    /\ return_exceptions = FALSE
    /\ nTasks = 0
    /\ willFail = <<>>
    /\ taskState = <<>>
    /\ gpc = "off"
    /\ started = <<>>
    /\ file = NoFile
    /\ remote = <<>>
    /\ pc = "off"
    /\ last_msg_id = None
    /\ first_element = TRUE
    /\ message_limit = None
    /\ after_message = OLDEST_OBJECT
    /\ page = <<>>
    /\ count = 0
    /\ run = NoRun
    /\ written = <<>>
    /\ history = [records |-> <<>>, clean |-> FALSE]
    /\ lfile = <<>>
    /\ chunk_size = ChunkSize
    /\ lresult = ResultError("not called")
    /\ lpc = "off"
    /\ lmeta = NoMeta
    /\ \E n \in 0..MaxMembers : guild_members = [i \in 1..n |-> i]
    /\ mlimit = None
    /\ mafter = 0
    /\ mdata = <<>>
    /\ mpc = "idle"
    /\ mrun = NoMemberRun
    /\ steam_size = 0
    /\ fpos = 0
    /\ rleft = 0
    /\ rchunks = <<>>
    /\ rseeks = <<>>
    /\ rpc = "off"

\* the call fetch_members(guild, limit=budget); `after` is MISSING, which
\* line 70 turns into Object(id=0)
MembersBegin(budget) ==
    /\ mpc \in {"idle", "done"}
    /\ mlimit' = budget
    /\ mafter' = 0
    /\ mdata' = <<>>
    /\ mrun' = [budget |-> budget, yielded |-> <<>>, requests |-> <<>>]
    /\ mpc' = "request"
    /\ UNCHANGED guild_members
    /\ UNCHANGED <<gatherVars, scrapeVars, locatorVars, readerVars>>

\* lines 63-65: retrieve < 1, the generator returns
MembersExhausted ==
    /\ mpc = "request"
    /\ MemberRetrieve < 1
    /\ mpc' = "done"
    /\ UNCHANGED <<guild_members, mlimit, mafter, mdata, mrun>>
    /\ UNCHANGED <<gatherVars, scrapeVars, locatorVars, readerVars>>

\* lines 75-83 with the page the request returned
TakeMembers(data) ==
    /\ mrun' = [mrun EXCEPT !.requests = Append(@, [limit |-> MemberRetrieve,
                                                    left |-> mlimit,
                                                    got |-> Len(data)])]
    /\ IF data = <<>>
       THEN /\ mpc' = "done"                                    \* lines 76-77
            /\ UNCHANGED <<mlimit, mafter, mdata>>
       ELSE /\ mlimit' = IF Len(data) < MemberCeiling THEN 0 ELSE mlimit   \* lines 80-81
            /\ mafter' = data[Len(data)]                        \* line 83
            /\ mdata' = Reverse(data)                           \* line 85
            /\ mpc' = "yield"
    /\ UNCHANGED guild_members
    /\ UNCHANGED <<gatherVars, scrapeVars, locatorVars, readerVars>>

\* lines 63-83: one get_members request
MembersPage ==
    /\ mpc = "request"
    /\ MemberRetrieve >= 1
    /\ \E data \in {GetMembers(guild_members, MemberRetrieve, mafter)} : TakeMembers(data)

\* lines 85-86: the next member of the page is yielded
MembersYield ==
    /\ mpc = "yield"
    /\ mdata # <<>>
    /\ mrun' = [mrun EXCEPT !.yielded = Append(@, Head(mdata))]
    /\ mdata' = Tail(mdata)
    /\ UNCHANGED <<guild_members, mlimit, mafter, mpc>>
    /\ UNCHANGED <<gatherVars, scrapeVars, locatorVars, readerVars>>

\* the page is used up: back to the head of `while True`
MembersPageEnd ==
    /\ mpc = "yield"
    /\ mdata = <<>>
    /\ mpc' = "request"
    /\ UNCHANGED <<guild_members, mlimit, mafter, mdata, mrun>>
    /\ UNCHANGED <<gatherVars, scrapeVars, locatorVars, readerVars>>

MembersNext ==
    \/ \E budget \in MemberBudgets : MembersBegin(budget)
    \/ MembersExhausted
    \/ MembersPage
    \/ MembersYield
    \/ MembersPageEnd

MembersSpec == MembersInit /\ [][MembersNext]_vars

-----------------------------------------------------------------------------
(* read_backwards (src/helpers/output_parse.py lines 44-60) step by step,  *)
(* on streams of every size from 0 up and every chunk size from 1 up.      *)

MaxStream == 4          \* largest stream size
StreamBytes == {"a", "b"}
Streams == UNION {[1..n -> StreamBytes] : n \in 0..MaxStream}

ReaderInit ==
    /\ pending = <<>>
    /\ running = <<>>
    /\ done = {}
    /\ results = <<>>
    /\ limit = 1
    /\ return_exceptions = FALSE
    /\ nTasks = 0
    /\ willFail = <<>>
    /\ taskState = <<>>
    /\ gpc = "off"
    /\ started = <<>>
    /\ file = NoFile
    /\ remote = <<>>
    /\ pc = "off"
    /\ last_msg_id = None
    /\ first_element = TRUE
    /\ message_limit = None
    /\ after_message = OLDEST_OBJECT
    /\ page = <<>>
    /\ count = 0
    /\ run = NoRun
    /\ written = <<>>
    /\ history = [records |-> <<>>, clean |-> FALSE]
    /\ lfile \in Streams
    /\ chunk_size \in 1..MaxChunk
    /\ lresult = ResultError("not called")
    /\ lpc = "off"
    /\ lmeta = NoMeta
    /\ guild_members = <<>>
    /\ mlimit = None
    /\ mafter = 0
    /\ mdata = <<>>
    /\ mpc = "off"
    /\ mrun = NoMemberRun
    /\ steam_size = 0
    /\ fpos = 0
    /\ rleft = 0
    /\ rchunks = <<>>
    /\ rseeks = <<>>
    /\ rpc = "start"

\* line 51: steam_size = await file_obj.seek(0, io.SEEK_END)
ReaderSeekEnd ==
    /\ rpc = "start"
    /\ steam_size' = Len(lfile)
    /\ fpos' = Len(lfile)
    /\ rseeks' = Append(rseeks, Len(lfile))
    /\ rleft' = Len(lfile) \div chunk_size          \* line 52: range(steam_size // chunk_size)
    /\ rpc' = "loop"
    /\ UNCHANGED rchunks
    /\ UNCHANGED <<gatherVars, scrapeVars, locatorVars, memberVars>>

\* lines 53-55: seek(-chunk_size, SEEK_CUR), read(chunk_size), yield.  A seek
\* to a negative offset raises OSError.
ReaderChunk ==
    /\ rpc = "loop"
    /\ rleft > 0
    /\ rseeks' = Append(rseeks, fpos - chunk_size)
    /\ IF fpos - chunk_size < 0
       THEN /\ rpc' = "error"
            /\ UNCHANGED <<fpos, rchunks, rleft>>
       ELSE /\ \E chunk \in {ReadAt(lfile, fpos - chunk_size, chunk_size)} :
                  /\ rchunks' = Append(rchunks, [at |-> fpos - chunk_size, bytes |-> chunk])
                  /\ fpos' = (fpos - chunk_size) + Len(chunk)
            /\ rleft' = rleft - 1
            /\ rpc' = "undo"
    /\ UNCHANGED steam_size
    /\ UNCHANGED <<gatherVars, scrapeVars, locatorVars, memberVars>>

\* a variant that leaves the position where the read ended
UndoReadSkipped(pos, c) == pos
\* line 56: seek(-chunk_size, SEEK_CUR), "Undo the read"
UndoRead(pos, c) == pos - c

\* line 56, when the consumer asks for the next chunk
ReaderUndo ==
    /\ rpc = "undo"
    /\ rseeks' = Append(rseeks, UndoRead(fpos, chunk_size))
    /\ IF UndoRead(fpos, chunk_size) < 0
       THEN /\ rpc' = "error"
            /\ UNCHANGED fpos
       ELSE /\ fpos' = UndoRead(fpos, chunk_size)
            /\ rpc' = "loop"
    /\ UNCHANGED <<steam_size, rleft, rchunks>>
    /\ UNCHANGED <<gatherVars, scrapeVars, locatorVars, memberVars>>

\* lines 58-60: seek(0), read(steam_size % chunk_size), yield; the generator ends
ReaderRest ==
    /\ rpc = "loop"
    /\ rleft = 0
    /\ rseeks' = Append(rseeks, 0)
    /\ \E chunk \in {ReadAt(lfile, 0, steam_size % chunk_size)} :
          /\ rchunks' = Append(rchunks, [at |-> 0, bytes |-> chunk])
          /\ fpos' = Len(chunk)
    /\ rpc' = "done"
    /\ UNCHANGED <<steam_size, rleft>>
    /\ UNCHANGED <<gatherVars, scrapeVars, locatorVars, memberVars>>

ReaderNext ==
    \/ ReaderSeekEnd
    \/ ReaderChunk
    \/ ReaderUndo
    \/ ReaderRest

ReaderSpec == ReaderInit /\ [][ReaderNext]_vars

-----------------------------------------------------------------------------
(* Specifications.                                                         *)

GatherNext ==
    \/ LoopTest
    \/ StartTask
    \/ AwaitWait
    \/ \E t \in Tasks : TaskFinish(t)
    \/ \E t \in Tasks : TaskHttpError(t)
    \/ WaitReturns
    \/ \E t \in Tasks : ProcessTask(t)
    \/ DropDone

\* The event loop keeps running what is ready, and every coroutine that was
\* started ends: weak fairness of each step.
GatherSpec ==
    /\ GatherInit
    /\ [][GatherNext]_vars
    /\ WF_vars(GatherNext)

\* gather_with_limit with a caller that may be cancelled
CancelNext ==
    \/ GatherNext
    \/ CancelCaller
CancelSpec == GatherInit /\ [][CancelNext]_vars

ScrapeSpec ==
    /\ ScrapeInit
    /\ [][ScrapeNext]_vars

\* fetch_channel_history alone: a channel that holds its messages from the
\* start, no message posted, no failure or cancellation of the consumer.
MaxHeld == 5            \* messages the channel holds
MaxFetchBudget == 5     \* largest message_limit, above the page ceiling
FetchBudgets == {None} \cup (0..MaxFetchBudget)

FetchInit ==
    /\ pending = <<>>
    /\ running = <<>>
    /\ done = {}
    /\ results = <<>>
    /\ limit = 1
    /\ return_exceptions = FALSE
    /\ nTasks = 0
    /\ willFail = <<>>
    /\ taskState = <<>>
    /\ gpc = "off"
    /\ started = <<>>
    /\ lfile = <<>>
    /\ chunk_size = ChunkSize
    /\ lresult = ResultError("not called")
    /\ lpc = "off"
    /\ lmeta = NoMeta
    /\ guild_members = <<>>
    /\ mlimit = None
    /\ mafter = 0
    /\ mdata = <<>>
    /\ mpc = "off"
    /\ mrun = NoMemberRun
    /\ steam_size = 0
    /\ fpos = 0
    /\ rleft = 0
    /\ rchunks = <<>>
    /\ rseeks = <<>>
    /\ rpc = "off"
    /\ file = NoFile
    /\ \E n \in 0..MaxHeld : \E shape \in Shapes :
          remote = [i \in 1..n |-> MessageOf(i, shape)]
    /\ pc = "idle"
    /\ last_msg_id = None
    /\ first_element = TRUE
    /\ message_limit = None
    /\ after_message = OLDEST_OBJECT
    /\ page = <<>>
    /\ count = 0
    /\ run = NoRun
    /\ written = <<>>
    /\ history = [records |-> <<>>, clean |-> FALSE]

FetchNext ==
    \/ \E budget \in FetchBudgets : Begin(budget)
    \/ FetchExhausted
    \/ FetchPage
    \/ WriteMessage
    \/ PageEnd
    \/ CloseArray

\* The event loop runs the generator and its consumer to their next step.
\* The steps of a run once it is open; at most one is enabled at a time
FetchStep == FetchExhausted \/ FetchPage \/ WriteMessage \/ PageEnd \/ CloseArray
FetchSpec == FetchInit /\ [][FetchNext]_vars /\ WF_vars(FetchStep)

LocatorSpec ==
    /\ LocatorInit
    /\ [][LocatorNext]_vars

-----------------------------------------------------------------------------
(* Properties of gather_with_limit (GatherSpec).                           *)

\* C1: at every moment of the scheduler loop, whatever the order in which the
\* tasks complete, at most `limit` tasks have been started and have not yet
\* finished.
C1_ConcurrencyBound == Cardinality(RunningTasks) <= limit

C1_Witness ==
    /\ gpc = "wait"
    /\ limit < nTasks
    /\ Cardinality(RunningTasks) = limit
    /\ pending # <<>>
    /\ \E t \in Tasks : taskState[t] \in Terminal

\* C2: with return_exceptions=True the returned list holds one entry for each
\* of the nTasks submitted tasks, whether the task succeeded or failed.
C2_EveryOutcomeOnce ==
    (gpc = "returned" /\ return_exceptions) =>
        /\ Len(results) = nTasks
        /\ \A t \in Tasks : Cardinality({i \in 1..Len(results) : results[i].task = t}) = 1

\* C3: when no task fails or return_exceptions=True, and every task
\* eventually finishes, the call eventually returns; and whenever it has
\* returned, the pending queue is empty and every submitted task has been
\* started and has reached a terminal state.
C3_ReturnsAfterAllTerminal ==
    /\ [](gpc = "returned" =>
            /\ pending = <<>>
            /\ \A t \in Tasks : InSeq(started, t) /\ taskState[t] \in Terminal)
    /\ ((return_exceptions \/ \A t \in Tasks : ~willFail[t]) ~> (gpc = "returned"))

C3_Witness ==
    /\ gpc = "returned"
    /\ return_exceptions
    /\ nTasks > limit
    /\ \E t \in Tasks : taskState[t] = "failed"
    /\ \E t \in Tasks : taskState[t] = "ok"

-----------------------------------------------------------------------------
(* Properties of scrape_channel_messages (ScrapeSpec).                     *)

Last(q) == q[Len(q)]
IsPrefix(p, q) == Len(p) <= Len(q) /\ SubSeq(q, 1, Len(p)) = p

\* r1 "," r2 "," ... rn in compact encoding
RECURSIVE JoinCompact(_)
JoinCompact(rs) ==
    IF rs = <<>> THEN <<>>
    ELSE IF Len(rs) = 1 THEN Dumps(rs[1])
    ELSE JoinCompact(SubSeq(rs, 1, Len(rs) - 1)) \o <<",">> \o Dumps(Last(rs))

\* the text decodes to a JSON array whose elements are all objects
IsRecordArrayValue(d) ==
    /\ d.ok
    /\ d.v.t = "arr"
    /\ \A i \in 1..Len(d.v.a) : d.v.a[i].t = "obj"
IsRecordArray(data) == IsRecordArrayValue(Loads(data))

RunEndedOk == pc = "idle" /\ run.outcome = "ok"

\* C4: a run on a path with no file, whose source yields r1..rn without
\* error, leaves exactly "[" r1 "," ... "," rn "]" in compact encoding (so
\* "[]" when n = 0), and that text decodes to the array [r1..rn] in order.
C4_FreshRoundTrip ==
    (RunEndedOk /\ ~run.startFile.exists) =>
        /\ file.exists
        /\ file.data = <<"[">> \o JoinCompact(run.yielded) \o <<"]">>
        /\ Loads(file.data) = [ok |-> TRUE, v |-> Arr(run.yielded)]

C4_Witness ==
    /\ RunEndedOk
    /\ ~run.startFile.exists
    /\ Len(run.yielded) >= 2

\* C5: after a first successful export of r1..rk (k >= 1) and further
\* successful exports of the same path that obtain r(k+1)..rn, the file
\* decodes to exactly r1..rn in order, and get_last_json_object returns the
\* last record written (rk after the first run, rn after the later one).
C5_ResumeIdempotence ==
    (RunEndedOk /\ history.clean /\ history.records # <<>>) =>
        /\ Loads(file.data) = [ok |-> TRUE, v |-> Arr(history.records)]
        /\ GetLastJsonObject(file.data, ChunkSize) = ResultOk(Last(history.records))

C5_Witness ==
    /\ RunEndedOk
    /\ history.clean
    /\ run.startFile.exists
    /\ run.yielded # <<>>
    /\ Len(history.records) > Len(run.yielded)

\* the run started on "[" r1 "," ... rk without the closing bracket, k >= 1
StartedOnInterrupted ==
    /\ run.mode \in {"w", "a"}
    /\ run.startFile.exists
    /\ run.startWritten # <<>>
    /\ run.startFile.data = <<"[">> \o JoinCompact(run.startWritten)

\* C6: a run that finds the file of an interrupted export, "[r1,...,rk"
\* without the closing bracket, keeps r1..rk in the file and fetches only the
\* records after rk.
C6_InterruptedResume ==
    StartedOnInterrupted =>
        /\ run.mode = "a"
        /\ run.cursor = MessageId(Last(run.startWritten))
        /\ file.exists => IsPrefix(run.startFile.data, file.data)

\* C7: the run deletes the file only in a fresh-mode session that failed
\* before any record was written; a failure of a resume session leaves the
\* archive on disk.
C7_DeletesOnlyEmptyFresh ==
    run.deleted => (run.mode = "w" /\ run.yielded = <<>>)

\* C8: whenever the most recent run completed its write session normally the
\* file is one valid JSON array of records; the file lacks its closing bracket
\* only after a run that was interrupted.
C8_CommittedFileValid ==
    /\ RunEndedOk => (file.exists /\ IsRecordArray(file.data))
    /\ (pc = "idle" /\ file.exists /\ (file.data = <<>> \/ Last(file.data) # "]"))
           => run.outcome = "interrupted"

-----------------------------------------------------------------------------
(* Properties of get_last_json_object (LocatorSpec).                       *)

\* C9: on a file in which a character that is not JSON whitespace follows the
\* last "]", whatever the chunk size, get_last_json_object raises.
C9_MalformedDetected ==
    (lpc = "called" /\ lmeta.garbage > 0) => ~lresult.ok

\* C10: on a valid JSON array of n >= 1 object records (nested arrays and
\* objects, brackets, braces and escaped quotes in strings, an escaped
\* backslash before a closing quote), wherever the chunk boundaries fall,
\* get_last_json_object returns exactly the last record.
C10_LocatorCorrect ==
    (lpc = "called" /\ lmeta.garbage = 0) => lresult = ResultOk(Last(lmeta.records))

C10_Witness ==
    /\ lpc = "called"
    /\ lmeta.garbage = 0
    /\ lmeta.pads > 0
    /\ Len(lmeta.records) = 2
    /\ chunk_size = 3
    /\ Last(lmeta.records) = SampleRecords[3]
    /\ lresult.ok

-----------------------------------------------------------------------------
(* Properties of gather_with_limit under cancellation (CancelSpec).        *)

\* C16: once the caller awaiting gather_with_limit has been cancelled, no
\* task it started is still running.
C16_CancellationPropagates ==
    gpc = "cancelled" => \A t \in Tasks : taskState[t] # "running"

\* C17: a remote error of the page fetch of one channel ends that pipeline
\* without an exception leaving it, so gather_with_limit raises only when a
\* task really failed, and when no task fails it starts every submitted
\* target and returns after all of them have ended, under the fail-fast
\* policy (return_exceptions = FALSE) as well.
C17_TargetIsolation ==
    /\ [](\A t \in Tasks : taskState[t] = "http_error" => ~willFail[t])
    /\ [](gpc = "raised" => \E t \in Tasks : willFail[t] /\ taskState[t] = "failed")
    /\ ((\A t \in Tasks : ~willFail[t]) ~>
            (/\ gpc = "returned"
             /\ \A t \in Tasks : InSeq(started, t) /\ taskState[t] \in Terminal))

\* fail-fast, one target at a time: the first one ends on a remote error and
\* the two after it are still scraped
C17_Witness ==
    /\ gpc = "returned"
    /\ ~return_exceptions
    /\ limit = 1
    /\ nTasks = 3
    /\ taskState[1] = "http_error"
    /\ taskState[2] = "ok"
    /\ taskState[3] = "ok"

\* C22: under the fail-fast policy (return_exceptions = FALSE) the call raises
\* while it processes a failed task of a completion batch, no batch that holds
\* a failed task gets past the scheduler without the raise, and the raise drops
\* no started task: every started task is running or has ended, and after the
\* raise each of them still runs on to a terminal state.
C22_FailFast ==
    /\ [][(gpc' = "raised" /\ gpc # "raised") =>
            /\ ~return_exceptions
            /\ gpc = "process"
            /\ \E t \in done : taskState[t] = "failed" /\ done' = done \ {t}]_vars
    /\ []((~return_exceptions /\ gpc \in {"loop", "fill", "wait", "returned"}) =>
            \A t \in Tasks :
                (InSeq(started, t) /\ ~InSeq(running, t)) => taskState[t] # "failed")
    /\ ((~return_exceptions /\ gpc = "process"
            /\ \E t \in done : taskState[t] = "failed") ~> (gpc = "raised"))
    /\ [](\A t \in Tasks : InSeq(started, t) => taskState[t] \in Terminal \cup {"running"})
    /\ ((gpc = "raised") ~>
            (gpc = "raised" /\ \A t \in Tasks : InSeq(started, t) => taskState[t] \in Terminal))

\* the call has raised on task 1 while task 2 was running, and task 2 went on
\* to its end afterwards
C22_Witness ==
    /\ gpc = "raised"
    /\ ~return_exceptions
    /\ taskState[1] = "failed"
    /\ \E t \in Tasks : InSeq(running, t) /\ taskState[t] = "ok"
    /\ \A t \in Tasks : InSeq(started, t) => taskState[t] \in Terminal

\* C25: every time the scheduler loop suspends in asyncio.wait, either
\* exactly `limit` tasks are running or the pending queue is empty; the tasks
\* are started in the order they were submitted; and a task is started only
\* while fewer than `limit` tasks are running, so once the limit was reached
\* only after a running task has completed.
C25_RefillToCapacity ==
    /\ [](gpc = "wait" => (Len(running) = limit \/ pending = <<>>))
    /\ [][(gpc' = "wait" /\ gpc # "wait") =>
            /\ \A i \in 1..Len(running') : taskState'[running'[i]] = "running"
            /\ Cardinality(RunningTasks') = limit \/ pending' = <<>>]_vars
    /\ [](\A i \in 1..Len(started) : started[i] = i)
    /\ [][started' # started =>
            /\ Cardinality(RunningTasks) < limit
            /\ started' = Append(started, Head(pending))]_vars

\* limit 2, three tasks: after the first completion batch the third task was
\* started and two tasks run again while the loop waits
C25_Witness ==
    /\ gpc = "wait"
    /\ limit = 2
    /\ started = <<1, 2, 3>>
    /\ Len(running) = 2
    /\ Cardinality(RunningTasks) = 2

-----------------------------------------------------------------------------
(* Further properties of scrape_channel_messages and of                    *)
(* fetch_channel_history (ScrapeSpec).                                     *)

EmptyArrayText == <<"[", "]">>
StartedOnEmptyArray == run.mode # "none" /\ run.startFile.exists
                       /\ run.startFile.data = EmptyArrayText

\* C11: get_last_json_object fails on a file holding exactly "[]", and a run
\* of scrape_channel_messages that finds such a file works in fresh mode: it
\* overwrites, starts the fetch at the oldest message, writes no comma before
\* the first record and ends with the array of the records it fetched.
C11_EmptyArrayFresh ==
    /\ \A c \in 1..MaxChunk : ~GetLastJsonObject(EmptyArrayText, c).ok
    /\ StartedOnEmptyArray =>
          /\ ~GetLastJsonObject(run.startFile.data, ChunkSize).ok
          /\ run.mode = "w"
          /\ run.cursor = None
          /\ last_msg_id = None
          /\ IsPrefix(run.yielded, remote)
          /\ file.exists => IsPrefix(<<"[">> \o JoinCompact(run.yielded), file.data)
          /\ (pc = "close" /\ run.budget = None) => run.yielded = remote
          /\ RunEndedOk =>
                /\ file.data = <<"[">> \o JoinCompact(run.yielded) \o <<"]">>
                /\ Loads(file.data) = [ok |-> TRUE, v |-> Arr(run.yielded)]

C11_Witness ==
    /\ StartedOnEmptyArray
    /\ RunEndedOk
    /\ Len(run.yielded) >= 2

\* the ids of the records of a decoded array are pairwise different
DistinctIds(d) ==
    /\ d.ok
    /\ d.v.t = "arr"
    /\ \A i, j \in 1..Len(d.v.a) : i < j => MessageId(d.v.a[i]) # MessageId(d.v.a[j])

\* C15: whenever a run works in resume mode, the cursor it passes to
\* fetch_channel_history is the id of the record get_last_json_object returned
\* for the file it found, its first page request carries that cursor, every
\* record it appends has a greater id, and after any chain of runs that ended
\* normally no id occurs twice in the file.
C15_ResumeCursor ==
    /\ run.mode = "a" =>
          /\ run.startFile.exists
          /\ \A r \in {GetLastJsonObject(run.startFile.data, ChunkSize)} :
                r.ok /\ r.v.t = "obj" /\ run.cursor = MessageId(r.v)
          /\ run.requests # <<>> => run.requests[1].after = run.cursor
          /\ \A i \in 1..Len(run.yielded) : MessageId(run.yielded[i]) > run.cursor
    /\ (RunEndedOk /\ history.clean) =>
          \A d \in {Loads(file.data)} : DistinctIds(d)

C15_Witness ==
    /\ RunEndedOk
    /\ history.clean
    /\ run.mode = "a"
    /\ run.cursor = 1
    /\ Len(run.yielded) >= 2

\* "," r for every record r
RECURSIVE AppendEach(_)
AppendEach(rs) ==
    IF rs = <<>> THEN <<>>
    ELSE <<",">> \o Dumps(Head(rs)) \o AppendEach(Tail(rs))

\* the text of the file while the run's write session is open
SessionText(r) ==
    IF r.mode = "w" THEN <<"[">> \o JoinCompact(r.yielded)
    ELSE TruncateLast(r.startFile.data) \o AppendEach(r.yielded)

\* C18: while a write session is open, and after it was cancelled or ended
\* by an error other than a remote error, the file holds what the session
\* opened with and the records written, with no closing bracket added; the
\* closing "]" is appended only by the step that follows the normal end of
\* the source sequence.
C18_NoBracketOnInterrupt ==
    /\ [](run.outcome \in {"running", "interrupted"} =>
              file.exists /\ file.data = SessionText(run))
    /\ [][(file'.exists /\ file.exists /\ file'.data = file.data \o <<"]">>)
              => (pc = "close" /\ run'.outcome = "ok")]_vars

C18_Witness ==
    /\ pc = "idle"
    /\ run.outcome = "interrupted"
    /\ run.mode = "a"
    /\ Len(run.yielded) >= 1
    /\ Last(file.data) = "}"

-----------------------------------------------------------------------------
(* Properties of fetch_channel_history (FetchSpec).                        *)

\* the messages of the channel with an id above `id`, oldest first
NewerThan(msgs, id) == SelectSeq(msgs, LAMBDA m : MessageId(m) > id)
CursorOf(r) == IF r.cursor = None THEN OLDEST_OBJECT ELSE r.cursor
GeneratorEnded == pc = "close" \/ RunEndedOk
Requests == run.requests

\* C12: with no budget, against a finite channel whose remote returns full
\* pages until fewer messages remain, the generator yields every message
\* after the cursor exactly once, in order, and ends; every request but the
\* last got a full page (no request follows a short or empty page), so the
\* number of requests is the number of full pages plus one.
C12_PaginationTerminates ==
    /\ [](run.mode # "none" /\ run.budget = None =>
            /\ \A i \in 1..Len(Requests) : Requests[i].limit = PageCeiling
            /\ \A i \in 1..(Len(Requests) - 1) : Requests[i].got = PageCeiling
            /\ IsPrefix(run.yielded, NewerThan(remote, CursorOf(run)))
            /\ GeneratorEnded =>
                  /\ run.yielded = NewerThan(remote, CursorOf(run))
                  /\ Len(Requests) = (Len(run.yielded) \div PageCeiling) + 1
                  /\ Requests[Len(Requests)].got < PageCeiling)
    /\ ((pc = "fetch" /\ run.budget = None) ~> (pc = "close"))

\* pages of sizes ceiling, ceiling, 1: three requests
C12_Witness ==
    /\ pc = "close"
    /\ run.budget = None
    /\ Len(Requests) = 3
    /\ Requests[1].got = PageCeiling
    /\ Requests[2].got = PageCeiling
    /\ Requests[3].got = 1
    /\ Len(run.yielded) = 2 * PageCeiling + 1

\* the number of records the first n requests returned
RECURSIVE SumGot(_, _)
SumGot(reqs, n) == IF n = 0 THEN 0 ELSE SumGot(reqs, n - 1) + reqs[n].got

\* C13: with a message_limit B >= 0, every page request asks for at least 1
\* and at most min(ceiling, remaining budget) records, the remaining budget is
\* B less the records received so far, no request is made when it is 0, the
\* records yielded never exceed B, and at the end they are B when the channel
\* holds at least B messages after the cursor (all of them otherwise).
C13_BudgetRespected ==
    (run.mode # "none" /\ run.budget # None) =>
        /\ \A i \in 1..Len(Requests) :
              /\ Requests[i].left = run.budget - SumGot(Requests, i - 1)
              /\ Requests[i].left >= 1
              /\ Requests[i].limit >= 1
              /\ Requests[i].limit <= Min(PageCeiling, Requests[i].left)
              /\ Requests[i].got <= Requests[i].limit
        /\ run.budget = 0 => Requests = <<>>
        /\ Len(run.yielded) <= run.budget
        /\ GeneratorEnded =>
              Len(run.yielded) = Min(run.budget, Len(NewerThan(remote, CursorOf(run))))

\* a budget above one page, used up by a full page and a clamped one
C13_Witness ==
    /\ GeneratorEnded
    /\ run.budget = PageCeiling + 1
    /\ Len(NewerThan(remote, CursorOf(run))) > run.budget
    /\ Len(run.yielded) = run.budget
    /\ Len(Requests) = 2
    /\ Requests[2].limit = 1

\* C14: the cursors sent in the successive page requests of a run are
\* strictly increasing, and so are the ids of the records the run yields, the
\* first of them above the cursor the run started with: no record is yielded
\* twice.
C14_StrictlyAscending ==
    run.mode # "none" =>
        /\ \A i, j \in 1..Len(Requests) : i < j => Requests[i].after < Requests[j].after
        /\ \A i \in 1..Len(Requests) : Requests[i].after >= CursorOf(run)
        /\ \A i \in 1..Len(run.yielded) : MessageId(run.yielded[i]) > CursorOf(run)
        /\ \A i, j \in 1..Len(run.yielded) :
              i < j => MessageId(run.yielded[i]) < MessageId(run.yielded[j])

C14_Witness ==
    /\ GeneratorEnded
    /\ run.cursor # None
    /\ Len(Requests) >= 2
    /\ Len(run.yielded) > PageCeiling

Range(q) == {q[i] : i \in 1..Len(q)}
NewestOf(msgs, n) == SubSeq(msgs, Len(msgs) - n + 1, Len(msgs))

\* C19: a fresh export with message_limit = N of a channel that holds more
\* than N messages exports the N newest messages of the channel.
C19_NewestFirst ==
    (/\ GeneratorEnded
     /\ run.mode = "w"
     /\ run.budget # None
     /\ run.budget >= 1
     /\ Len(remote) > run.budget)
        => Range(run.yielded) = Range(NewestOf(remote, run.budget))

-----------------------------------------------------------------------------
(* Properties of fetch_members (MembersSpec).                              *)

\* C20: with a limit B given by the caller, the remaining budget of every
\* request is B less the members received before it, and the members yielded
\* never exceed B.
C20_MemberBudget ==
    mrun.budget # None =>
        /\ Len(mrun.yielded) <= mrun.budget
        /\ \A i \in 1..Len(mrun.requests) :
              mrun.requests[i].left <= mrun.budget - SumGot(mrun.requests, i - 1)

\* C21: the ids of the members yielded over a whole run of fetch_members,
\* within a page as well as across pages, are in ascending order (the remote
\* returns every page in ascending id order).
C21_MembersAscending ==
    \A i, j \in 1..Len(mrun.yielded) :
        i < j => mrun.yielded[i] < mrun.yielded[j]

-----------------------------------------------------------------------------
(* Re-export of an unchanged channel (ScrapeSpec).                         *)

RecordsOf(data) == Loads(data).v.a
NothingNewAfter(id) == \A i \in 1..Len(remote) : MessageId(remote[i]) <= id

\* C26: when the path held a valid array of at least one record, as a
\* successful export leaves it, and the channel holds no message after the
\* last record's id, a further export that ends normally leaves the file
\* byte for byte as it was.
C26_ReexportNoOp ==
    (/\ RunEndedOk
     /\ run.startFile.exists
     /\ IsRecordArray(run.startFile.data)
     /\ RecordsOf(run.startFile.data) # <<>>
     /\ NothingNewAfter(MessageId(Last(RecordsOf(run.startFile.data)))))
        => /\ run.mode = "a"
           /\ run.yielded = <<>>
           /\ file.data = run.startFile.data

\* a second export of a channel of two messages, both already in the file
C26_Witness ==
    /\ RunEndedOk
    /\ run.mode = "a"
    /\ run.startFile.exists
    /\ IsRecordArray(run.startFile.data)
    /\ Len(RecordsOf(run.startFile.data)) = 2
    /\ Len(remote) = 2
    /\ run.requests # <<>>
    /\ file.data = run.startFile.data

-----------------------------------------------------------------------------
(* scrape_channel_messages on an archive that an earlier export wrote and  *)
(* that has since got JSON whitespace after its closing bracket (a final   *)
(* newline, say): get_last_json_object accepts such a file.                *)

MaxTrail == 1           \* whitespace characters after the closing bracket
Trails == UNION {[1..n -> JSON_WHITESPACE] : n \in 0..MaxTrail}
ArchiveText(rs, trail) == <<"[">> \o JoinCompact(rs) \o <<"]">> \o trail

ResumeInit ==
    /\ pending = <<>>
    /\ running = <<>>
    /\ done = {}
    /\ results = <<>>
    /\ limit = 1
    /\ return_exceptions = FALSE
    /\ nTasks = 0
    /\ willFail = <<>>
    /\ taskState = <<>>
    /\ gpc = "off"
    /\ started = <<>>
    /\ lfile = <<>>
    /\ chunk_size = ChunkSize
    /\ lresult = ResultError("not called")
    /\ lpc = "off"
    /\ lmeta = NoMeta
    /\ guild_members = <<>>
    /\ mlimit = None
    /\ mafter = 0
    /\ mdata = <<>>
    /\ mpc = "off"
    /\ mrun = NoMemberRun
    /\ steam_size = 0
    /\ fpos = 0
    /\ rleft = 0
    /\ rchunks = <<>>
    /\ rseeks = <<>>
    /\ rpc = "off"
    /\ \E n \in 1..MaxMessages : \E k \in 1..n : \E shape \in Shapes : \E trail \in Trails :
          /\ remote = [i \in 1..n |-> MessageOf(i, shape)]
          /\ file = FileOf(ArchiveText([i \in 1..k |-> MessageOf(i, shape)], trail))
          /\ written = [i \in 1..k |-> MessageOf(i, shape)]
    /\ pc = "idle"
    /\ last_msg_id = None
    /\ first_element = TRUE
    /\ message_limit = None
    /\ after_message = OLDEST_OBJECT
    /\ page = <<>>
    /\ count = 0
    /\ run = NoRun
    /\ history = [records |-> <<>>, clean |-> FALSE]

ResumeNext ==
    \/ \E budget \in Budgets : Begin(budget)
    \/ FetchExhausted
    \/ FetchPage
    \/ WriteMessage
    \/ PageEnd
    \/ CloseArray

ResumeSpec == ResumeInit /\ [][ResumeNext]_vars

\* C24: whenever a run enters resume mode, the one byte it truncated from
\* the end of the file was the closing "]" of the array, whether or not JSON
\* whitespace followed the bracket, and a resume run that ends normally
\* leaves one JSON array of records.
C24_TruncatesClosingBracket ==
    /\ run.mode = "a" => Last(run.startFile.data) = "]"
    /\ (RunEndedOk /\ run.mode = "a") => IsRecordArray(file.data)

-----------------------------------------------------------------------------
(* Properties of read_backwards (ReaderSpec).                              *)

BytesOf(cs) == [i \in 1..Len(cs) |-> cs[i].bytes]
Covers(c) == {c.at + k : k \in 1..Len(c.bytes)}

\* C23: for every stream size S >= 0 and chunk size c >= 1 no seek of
\* read_backwards goes before offset 0, and the finished generator has
\* yielded S \div c chunks of exactly c bytes and then one chunk of S % c
\* bytes; the chunks are disjoint, each holds the bytes of the stream at its
\* place in stream order, and the chunks joined in the reverse of their yield
\* order are the whole stream.
C23_ReadBackwardsCoverage ==
    /\ rpc # "error"
    /\ \A i \in 1..Len(rseeks) : rseeks[i] >= 0
    /\ rpc = "done" =>
          /\ Len(rchunks) = (Len(lfile) \div chunk_size) + 1
          /\ \A i \in 1..(Len(rchunks) - 1) : Len(rchunks[i].bytes) = chunk_size
          /\ Len(rchunks[Len(rchunks)].bytes) = Len(lfile) % chunk_size
          /\ \A i, j \in 1..Len(rchunks) :
                i # j => Covers(rchunks[i]) \cap Covers(rchunks[j]) = {}
          /\ \A i \in 1..Len(rchunks) :
                rchunks[i].bytes = SubSeq(lfile, rchunks[i].at + 1,
                                          rchunks[i].at + Len(rchunks[i].bytes))
          /\ Chain(Reverse(BytesOf(rchunks)), 1) = lfile
          /\ BytesOf(rchunks) = ReadBackwards(lfile, chunk_size)

\* a stream of 4 bytes read in chunks of 3: one full chunk, then the first byte
C23_Witness ==
    /\ rpc = "done"
    /\ lfile = <<"a", "b", "b", "a">>
    /\ chunk_size = 3
    /\ BytesOf(rchunks) = << <<"b", "b", "a">>, <<"a">> >>

=============================================================================
